---- MODULE Spec2Model ----
(***************************************************************************)
(* Breakpoint table of the interpreter (libinterp/parse-tree/bp-table.cc): *)
(* the set of names that hold breakpoints, the line resolver, the dbstop / *)
(* dbclear argument parser and the stop-on-error/warning trigger state.    *)
(*                                                                         *)
(* Names are sequences of components: <<"fa">> is the file fa and          *)
(* <<"fa","zb">> is the qualified name "fa>zb".  Line maps (intmap) are    *)
(* sequences, so index i of the code is index i+1 here.                    *)
(***************************************************************************)
EXTENDS Integers, Sequences, FiniteSets, TLC

VARIABLES
  bkpts,                \* routine -> lines that hold a breakpoint in its body
  m_bp_set,             \* bp_table::m_bp_set
  debug_on_error,       \* error_system::debug_on_error
  debug_on_caught,      \* error_system::debug_on_caught
  debug_on_warning,     \* error_system::debug_on_warning
  m_errors_that_stop,   \* bp_table::m_errors_that_stop
  m_caught_that_stop,   \* bp_table::m_caught_that_stop
  m_warnings_that_stop, \* bp_table::m_warnings_that_stop
  Vdebug_on_interrupt,  \* Vdebug_on_interrupt
  Vdebug_on_naninf,     \* Vdebug_on_naninf; it exists in a DBSTOP_NANINF build only
  DBSTOP_NANINF,        \* whether the build defines the macro DBSTOP_NANINF
  call                  \* the command in flight or just completed, with its result

tablevars == <<bkpts, m_bp_set>>
trigvars == <<debug_on_error, debug_on_caught, debug_on_warning,
              m_errors_that_stop, m_caught_that_stop, m_warnings_that_stop,
              Vdebug_on_interrupt, Vdebug_on_naninf, DBSTOP_NANINF>>
vars == <<bkpts, m_bp_set, debug_on_error, debug_on_caught, debug_on_warning,
          m_errors_that_stop, m_caught_that_stop, m_warnings_that_stop,
          Vdebug_on_interrupt, Vdebug_on_naninf, DBSTOP_NANINF, call>>

(***************************************************************************)
(* Bounds.                                                                 *)
(***************************************************************************)
\* Largest number of requested lines in one add_breakpoint / remove_breakpoint.
MaxReq == 2

\* Largest number of arguments of one dbstop / dbclear command.
MaxArgs == 4

\* Largest number of arguments after the event of a stop-on-event command.
MaxIds == 1
\* The passes of the token loop of parse_dbfunction_params that are followed.
MaxPasses == 6
\* The longest argument list of a parse_dbfunction_params call run to its end.
MaxLoopArgs == 2

(***************************************************************************)
(* The source files known to the routine resolver.                         *)
(*   fa.m   1: function fa, stmt, end       sc.m   1: % comment            *)
(*          2: % comment                           2: stmt                 *)
(*          3: function zb, stmt                                           *)
(*          4:   function h                                                *)
(*          5:     stmt, end                                               *)
(*          6:   stmt, end                                                 *)
(*          7: function ya, stmt, end                                      *)
(* zb is declared before ya, h is nested in zb; line 8 is past the end.    *)
(*                                                                         *)
(*   ma.m   1: function ma, stmt                                           *)
(*          2:   function nz                                               *)
(*          3:     stmt, end                                               *)
(*          4:   stmt                                                      *)
(*          5:   function nb, stmt                                         *)
(*          6:     function nc, stmt                                       *)
(*          7:       function na, stmt, end                                *)
(*          8:     stmt, end                                               *)
(*          9:   stmt, end                                                 *)
(*         10: stmt, end                                                   *)
(* nz and nb are nested in ma, nc in nb and na in nc; line 11 is past the  *)
(* end.                                                                    *)
(***************************************************************************)
NULL == "nullptr"

Routines == {"fa", "zb", "h", "ya", "sc", "ma", "nz", "nb", "nc", "na"}

\* The routines that are a file of their own.
TopLevel == {"fa", "sc", "ma"}

Lines == 1 .. 8

beginning_line(r) ==
  CASE r = "fa" -> 1 [] r = "zb" -> 3 [] r = "h" -> 4 [] r = "ya" -> 7 [] r = "sc" -> 1
    [] r = "ma" -> 1 [] r = "nz" -> 2 [] r = "nb" -> 5 [] r = "nc" -> 6 [] r = "na" -> 7

ending_line(r) ==
  CASE r = "fa" -> 1 [] r = "zb" -> 6 [] r = "h" -> 5 [] r = "ya" -> 7 [] r = "sc" -> 2
    [] r = "ma" -> 10 [] r = "nz" -> 3 [] r = "nb" -> 9 [] r = "nc" -> 8 [] r = "na" -> 7

is_user_function(r) == r # "sc"

\* Lines of the statements of the routine's own body.
body(r) ==
  CASE r = "fa" -> {1} [] r = "zb" -> {3, 6} [] r = "h" -> {5} [] r = "ya" -> {7}
    [] r = "sc" -> {2}
    [] r = "ma" -> {1, 4, 10} [] r = "nz" -> {3} [] r = "nb" -> {5, 9}
    [] r = "nc" -> {6, 8} [] r = "na" -> {7}

\* octave_user_code::subfunctions: a std::map keyed by name.
subfunctions(r) ==
  CASE r = "fa" -> {"zb", "ya"} [] r = "zb" -> {"h"}
    [] r = "ma" -> {"nz", "nb"} [] r = "nb" -> {"nc"} [] r = "nc" -> {"na"}
    [] OTHER -> {}

\* octave_user_code::subfunction_names: the order of declaration in the file.
subfunction_names(r) ==
  CASE r = "fa" -> <<"zb", "ya">> [] r = "ma" -> <<"nz", "nb">> [] OTHER -> << >>

\* The order in which a std::map or std::set of strings is walked.
NameOrder == <<"fa", "h", "ma", "na", "nb", "nc", "nf", "nz", "sc", "ya", "zb">>

NameRank(s) == CHOOSE i \in 1 .. Len(NameOrder) : NameOrder[i] = s

SortedSubs(r) == SelectSeq(NameOrder, LAMBDA s : s \in subfunctions(r))

\* tree_evaluator::get_user_code: a file name, or file>subfunction.
get_user_code(fname) ==
  IF Len(fname) = 1 /\ fname[1] \in TopLevel THEN fname[1]
  ELSE IF Len(fname) = 2 /\ fname[1] \in TopLevel
          /\ fname[2] \in subfunctions(fname[1]) THEN fname[2]
  ELSE NULL

FileNames == {<<"fa">>, <<"sc">>}

Names == FileNames \cup {<<"fa", "zb">>, <<"nf">>}

LineLists == UNION {[1 .. n -> Lines] : n \in 0 .. MaxReq}

(***************************************************************************)
(* The statement list of a routine (tree_statement_list).                  *)
(***************************************************************************)
SetMin(S) == CHOOSE x \in S : \A y \in S : x <= y

\* tree_statement_list::set_breakpoint: the first statement at or after the
\* line takes the breakpoint; 0 when there is none.
set_breakpoint(r, lineno) ==
  IF \E l \in body(r) : l >= lineno
  THEN SetMin({l \in body(r) : l >= lineno})
  ELSE 0

\* tree_statement_list::add_breakpoint: every line of the map is set.
tree_add_breakpoint(r, line) ==
  {<<i, set_breakpoint(r, line[i])>> : i \in 1 .. Len(line)}

(***************************************************************************)
(* bp_table::condition_valid.                                              *)
(***************************************************************************)
\* The texts given as conditions: none, a plain assignment, a compound
\* assignment, an increment, a partial expression, two expressions, a command
\* and a blank.
Conditions == {"", "y=5", "y+=10", "y++", "y==", "x,y", "break", " "}

\* parser.run () and parser.statement_list () on the text followed by " ;".
\* stmt_list is << >> for a null pointer and <<list>> for a pointer to list.
parser_run(text) ==
  LET expr == [is_expression |-> TRUE, is_assignment_expression |-> FALSE]
  IN CASE text = "y=5" ->
            [parse_status |-> 0,
             stmt_list |-> <<<<[expr EXCEPT !.is_assignment_expression = TRUE]>>>>]
       [] text \in {"y+=10", "y++"} -> [parse_status |-> 0, stmt_list |-> <<<<expr>>>>]
       [] text = "y==" -> [parse_status |-> 1, stmt_list |-> << >>]
       [] text = "x,y" -> [parse_status |-> 0, stmt_list |-> <<<<expr, expr>>>>]
       [] text = "break" ->
            [parse_status |-> 0,
             stmt_list |-> <<<<[expr EXCEPT !.is_expression = FALSE]>>>>]
       [] OTHER -> [parse_status |-> 0, stmt_list |-> << >>]

\* condition_valid without the test for an assignment.
condition_valid_accepts_assignment(cond) ==
  IF cond # ""
  THEN LET parser == parser_run(cond)
           stmt_list == parser.stmt_list
       IN [parsed |-> TRUE,
           err |->
             IF parser.parse_status # 0 THEN "Cannot parse condition"
             ELSE IF stmt_list = << >>
             THEN "condition is not empty, but has nothing to evaluate"
             ELSE IF Len(stmt_list[1]) = 1 /\ stmt_list[1][1].is_expression
             THEN ""
             ELSE "condition must be an expression"]
  ELSE [parsed |-> FALSE, err |-> ""]

\* The result is [parsed, err]: whether the parser was run, and the message
\* of the error thrown ("" for none).
condition_valid(cond) ==
  IF cond # ""
  THEN LET parser == parser_run(cond)
           stmt_list == parser.stmt_list
       IN [parsed |-> TRUE,
           err |->
             IF parser.parse_status # 0 THEN "Cannot parse condition"
             ELSE IF stmt_list = << >>
             THEN "condition is not empty, but has nothing to evaluate"
             ELSE IF Len(stmt_list[1]) = 1 /\ stmt_list[1][1].is_expression
             THEN IF stmt_list[1][1].is_assignment_expression
                  THEN "condition cannot be an assignment.  Did you mean '=='?"
                  ELSE ""
             ELSE "condition must be an expression"]
  ELSE [parsed |-> FALSE, err |-> ""]

(***************************************************************************)
(* find_fcn_by_line.                                                       *)
(***************************************************************************)
IntMax == 2147483647

RECURSIVE find_fcn_by_line(_, _, _)
RECURSIVE find_fcn_subfcns(_, _, _, _)

\* find_fcn_subfcns that takes the subfunction itself, without the search of
\* the functions nested in it.
find_fcn_subfcns_without_nested(subs, k, lineno, st) ==
  IF k > Len(subs) THEN st
  ELSE
    LET dbg_subfcn == subs[k]
        inside == /\ ending_line(dbg_subfcn) < st.earliest_end
                  /\ ending_line(dbg_subfcn) >= lineno
                  /\ beginning_line(dbg_subfcn) <= lineno
        st1 == IF inside
               THEN [st EXCEPT !.earliest_end = ending_line(dbg_subfcn),
                               !.retval = dbg_subfcn]
               ELSE st
        st2 == IF beginning_line(dbg_subfcn) >= lineno /\ st1.next_fcn = NULL
               THEN [st1 EXCEPT !.next_fcn = dbg_subfcn]
               ELSE st1
    IN find_fcn_subfcns(subs, k + 1, lineno, st2)

\* The loop over subfcns; st = [retval, next_fcn, earliest_end].
find_fcn_subfcns(subs, k, lineno, st) ==
  IF k > Len(subs) THEN st
  ELSE
    LET dbg_subfcn == subs[k]
        inside == /\ ending_line(dbg_subfcn) < st.earliest_end
                  /\ ending_line(dbg_subfcn) >= lineno
                  /\ beginning_line(dbg_subfcn) <= lineno
        rec == find_fcn_by_line(dbg_subfcn, lineno, <<ending_line(dbg_subfcn)>>)
        st1 == IF inside
               THEN [st EXCEPT !.earliest_end = rec.end_line[1], !.retval = rec.fcn]
               ELSE st
        st2 == IF beginning_line(dbg_subfcn) >= lineno /\ st1.next_fcn = NULL
               THEN [st1 EXCEPT !.next_fcn = dbg_subfcn]
               ELSE st1
    IN find_fcn_subfcns(subs, k + 1, lineno, st2)

\* find_fcn_by_line without the fall back to next_fcn.
find_fcn_by_line_without_next_fcn(main_fcn, lineno, end_line) ==
  LET st == find_fcn_subfcns(SortedSubs(main_fcn), 1, lineno,
              [retval |-> NULL, next_fcn |-> NULL, earliest_end |-> IntMax])
      e == ending_line(main_fcn)
      retval ==
        IF is_user_function(main_fcn)
        THEN IF e >= lineno /\ e < st.earliest_end THEN main_fcn ELSE st.retval
        ELSE IF st.retval = NULL THEN main_fcn ELSE st.retval
  IN [fcn |-> retval,
      end_line |-> IF end_line # << >> /\ st.earliest_end < end_line[1]
                   THEN <<st.earliest_end>> ELSE end_line]

\* end_line is << >> for a null pointer and <<v>> for a pointer to the value v;
\* the result carries the routine found and what end_line points to afterwards.
find_fcn_by_line(main_fcn, lineno, end_line) ==
  LET st == find_fcn_subfcns(SortedSubs(main_fcn), 1, lineno,
              [retval |-> NULL, next_fcn |-> NULL, earliest_end |-> IntMax])
      e == ending_line(main_fcn)
      retval ==
        IF is_user_function(main_fcn)
        THEN LET r1 == IF e >= lineno /\ e < st.earliest_end THEN main_fcn
                       ELSE st.retval
             IN IF r1 = NULL THEN st.next_fcn ELSE r1
        ELSE IF st.retval = NULL THEN main_fcn ELSE st.retval
  IN [fcn |-> retval,
      end_line |-> IF end_line # << >> /\ st.earliest_end < end_line[1]
                   THEN <<st.earliest_end>> ELSE end_line]

(***************************************************************************)
(* bp_table: add.                                                          *)
(***************************************************************************)
\* strchr (fname, '>'): keep what precedes the first '>'.
Normalize(fname) == SubSeq(fname, 1, 1)

\* tb = [bkpts, m_bp_set]; the result adds found and retval.
add_breakpoint_1(fcn, fname, line, condition, tb) ==
  LET retval == tree_add_breakpoint(fcn, line)
      set == {p[2] : p \in {q \in retval : q[2] # 0}}
      found == set # {}
  IN [found |-> found,
      retval |-> retval,
      bkpts |-> [tb.bkpts EXCEPT ![fcn] = @ \cup set],
      m_bp_set |-> IF found THEN tb.m_bp_set \cup {Normalize(fname)}
                   ELSE tb.m_bp_set]

RECURSIVE add_breakpoint_loop(_, _, _, _, _, _)
\* add_breakpoint_loop that gives up at the first line that is not resolved
\* or not inserted, and puts the table back as it was before the call.
add_breakpoint_loop_rolls_back(main_fcn, fname, line, condition, i, acc) ==
  IF i > Len(line) THEN acc
  ELSE
    LET dbg_fcn == find_fcn_by_line(main_fcn, line[i], << >>).fcn
        one == add_breakpoint_1(dbg_fcn, fname, line, condition, acc)
        ret_one_i == CHOOSE p \in one.retval : p[1] = i
    IN IF dbg_fcn # NULL /\ one.found /\ ret_one_i[2] # 0
       THEN add_breakpoint_loop(main_fcn, fname, line, condition, i + 1,
              [bkpts |-> one.bkpts, m_bp_set |-> one.m_bp_set,
               retval |-> acc.retval \cup {ret_one_i}])
       ELSE [bkpts |-> bkpts, m_bp_set |-> m_bp_set, retval |-> {}]

\* The loop of add_breakpoint over the indices of line; acc = [bkpts, m_bp_set, retval].
add_breakpoint_loop(main_fcn, fname, line, condition, i, acc) ==
  IF i > Len(line) THEN acc
  ELSE
    LET dbg_fcn == find_fcn_by_line(main_fcn, line[i], << >>).fcn
        one == add_breakpoint_1(dbg_fcn, fname, line, condition, acc)
        ret_one_i == CHOOSE p \in one.retval : p[1] = i
    IN IF dbg_fcn # NULL /\ one.found
       THEN add_breakpoint_loop(main_fcn, fname, line, condition, i + 1,
              [bkpts |-> one.bkpts, m_bp_set |-> one.m_bp_set,
               retval |-> acc.retval \cup {ret_one_i}])
       ELSE add_breakpoint_loop(main_fcn, fname, line, condition, i + 1, acc)

Idle == [op |-> "idle", fname |-> << >>, line |-> << >>, cond |-> "",
         err |-> "", retval |-> {}, n |-> 0, parsed |-> FALSE]

\* add_breakpoint with the condition checked after the loop over the lines.
add_breakpoint_validates_last(fname, line, condition) ==
  /\ call.op = "idle"
  /\ LET main_fcn == get_user_code(fname)
         done == [Idle EXCEPT !.op = "add_breakpoint", !.fname = fname,
                              !.line = line, !.cond = condition]
     IN IF main_fcn = NULL
        THEN /\ call' = [done EXCEPT !.err = "NotFound"]
             /\ UNCHANGED tablevars
        ELSE LET acc == add_breakpoint_loop(main_fcn, fname, line, condition, 1,
                          [bkpts |-> bkpts, m_bp_set |-> m_bp_set, retval |-> {}])
             IN /\ bkpts' = acc.bkpts
                /\ m_bp_set' = acc.m_bp_set
                /\ call' = [done EXCEPT !.err = condition_valid(condition).err,
                                         !.retval = acc.retval,
                                         !.parsed = condition_valid(condition).parsed]
  /\ UNCHANGED trigvars

add_breakpoint(fname, line, condition) ==
  /\ call.op = "idle"
  /\ LET main_fcn == get_user_code(fname)
         done == [Idle EXCEPT !.op = "add_breakpoint", !.fname = fname,
                              !.line = line, !.cond = condition]
     IN IF main_fcn = NULL
        THEN /\ call' = [done EXCEPT !.err = "NotFound"]
             /\ UNCHANGED tablevars
        ELSE IF condition_valid(condition).err # ""
        THEN /\ call' = [done EXCEPT !.err = condition_valid(condition).err,
                                      !.parsed = condition_valid(condition).parsed]
             /\ UNCHANGED tablevars
        ELSE LET acc == add_breakpoint_loop(main_fcn, fname, line, condition, 1,
                          [bkpts |-> bkpts, m_bp_set |-> m_bp_set, retval |-> {}])
             IN /\ bkpts' = acc.bkpts
                /\ m_bp_set' = acc.m_bp_set
                /\ call' = [done EXCEPT !.retval = acc.retval,
                                         !.parsed = condition_valid(condition).parsed]
  /\ UNCHANGED trigvars

(***************************************************************************)
(* bp_table: remove.                                                       *)
(***************************************************************************)
\* tb = [bkpts, m_bp_set]; the result adds retval.
remove_breakpoint_1(fcn, fname, line, tb) ==
  LET before == tb.bkpts[fcn]
      results == before \ {line[i] : i \in 1 .. Len(line)}
  IN IF before # {}
     THEN [bkpts |-> [tb.bkpts EXCEPT ![fcn] = results],
           m_bp_set |-> IF results = {} /\ fname \in tb.m_bp_set
                        THEN tb.m_bp_set \ {fname} ELSE tb.m_bp_set,
           retval |-> Cardinality(results)]
     ELSE [bkpts |-> tb.bkpts, m_bp_set |-> tb.m_bp_set, retval |-> 0]

\* remove_all_breakpoints_in_file_1 without the erase of fname from m_bp_set.
remove_all_breakpoints_in_file_1_keeps_name(fname, silent, tb) ==
  LET dbg_fcn == get_user_code(fname)
  IN IF dbg_fcn # NULL
     THEN [err |-> "",
           bkpts |-> [tb.bkpts EXCEPT ![dbg_fcn] = {}],
           m_bp_set |-> tb.m_bp_set,
           retval |-> tb.bkpts[dbg_fcn]]
     ELSE [err |-> IF silent THEN "" ELSE "NotFound",
           bkpts |-> tb.bkpts, m_bp_set |-> tb.m_bp_set, retval |-> {}]

\* The result is [err, bkpts, m_bp_set, retval]; retval is the set of lines removed.
remove_all_breakpoints_in_file_1(fname, silent, tb) ==
  LET dbg_fcn == get_user_code(fname)
  IN IF dbg_fcn # NULL
     THEN [err |-> "",
           bkpts |-> [tb.bkpts EXCEPT ![dbg_fcn] = {}],
           m_bp_set |-> tb.m_bp_set \ {fname},
           retval |-> tb.bkpts[dbg_fcn]]
     ELSE [err |-> IF silent THEN "" ELSE "NotFound",
           bkpts |-> tb.bkpts, m_bp_set |-> tb.m_bp_set, retval |-> {}]

RECURSIVE remove_breakpoint_subfcns(_, _, _, _, _)
\* The loop of remove_breakpoint over subfcn_names.
remove_breakpoint_subfcns(dbg_fcn, fname, line, k, acc) ==
  IF k > Len(subfunction_names(dbg_fcn)) THEN acc
  ELSE
    LET subf_nm == subfunction_names(dbg_fcn)[k]
        one == remove_breakpoint_1(subf_nm, fname, line, acc)
    IN IF subf_nm \in subfunctions(dbg_fcn)
       THEN remove_breakpoint_subfcns(dbg_fcn, fname, line, k + 1,
              [one EXCEPT !.retval = acc.retval + one.retval])
       ELSE remove_breakpoint_subfcns(dbg_fcn, fname, line, k + 1, acc)

remove_breakpoint(fname, line) ==
  /\ call.op = "idle"
  /\ LET done == [Idle EXCEPT !.op = "remove_breakpoint", !.fname = fname,
                              !.line = line]
         tb == [bkpts |-> bkpts, m_bp_set |-> m_bp_set]
     IN IF Len(line) = 0
        THEN LET r == remove_all_breakpoints_in_file_1(fname, FALSE, tb)
             IN /\ bkpts' = r.bkpts
                /\ m_bp_set' = r.m_bp_set
                /\ call' = [done EXCEPT !.err = r.err, !.n = Cardinality(r.retval)]
        ELSE LET dbg_fcn == get_user_code(fname)
             IN IF dbg_fcn = NULL
                THEN /\ call' = [done EXCEPT !.err = "NotFound"]
                     /\ UNCHANGED tablevars
                ELSE LET top == remove_breakpoint_1(dbg_fcn, fname, line, tb)
                         r == remove_breakpoint_subfcns(dbg_fcn, fname, line, 1, top)
                     IN /\ bkpts' = r.bkpts
                        /\ m_bp_set' = r.m_bp_set
                        /\ call' = [done EXCEPT !.n = r.retval]
  /\ UNCHANGED trigvars

remove_all_breakpoints_in_file(fname, silent) ==
  /\ call.op = "idle"
  /\ LET r == remove_all_breakpoints_in_file_1(fname, silent,
                 [bkpts |-> bkpts, m_bp_set |-> m_bp_set])
     IN /\ bkpts' = r.bkpts
        /\ m_bp_set' = r.m_bp_set
        /\ call' = [Idle EXCEPT !.op = "remove_all_breakpoints_in_file",
                                !.fname = fname, !.err = r.err,
                                !.cond = IF silent THEN "silent" ELSE "",
                                !.retval = r.retval]
  /\ UNCHANGED trigvars

\* std::set iteration: the element after it, or << >> for cend ().
SetNext(S, it) ==
  LET after == {s \in S : NameRank(s[1]) > NameRank(it[1])}
  IN IF after = {} THEN << >>
     ELSE CHOOSE s \in after : \A t \in after : NameRank(s[1]) <= NameRank(t[1])

SetBegin(S) ==
  IF S = {} THEN << >>
  ELSE CHOOSE s \in S : \A t \in S : NameRank(s[1]) <= NameRank(t[1])

\* remove_all_breakpoints_loop with the iterator advanced after the erase: the
\* erased iterator has no successor and the loop ends after one pass.
remove_all_breakpoints_loop_erased_iterator(it, acc) ==
  IF it = << >> THEN acc
  ELSE
    LET r == remove_all_breakpoints_in_file_1(it, FALSE, acc)
    IN [err |-> r.err, bkpts |-> r.bkpts, m_bp_set |-> r.m_bp_set, n |-> acc.n + 1]

RECURSIVE remove_all_breakpoints_loop(_, _)
\* acc = [err, bkpts, m_bp_set, n]; n counts the passes of the loop.
remove_all_breakpoints_loop(it, acc) ==
  IF it = << >> THEN acc
  ELSE
    LET it_next == SetNext(acc.m_bp_set, it)
        r == remove_all_breakpoints_in_file_1(it, FALSE, acc)
    IN IF r.err # ""
       THEN [acc EXCEPT !.err = r.err, !.n = @ + 1]
       ELSE remove_all_breakpoints_loop(it_next,
              [err |-> "", bkpts |-> r.bkpts, m_bp_set |-> r.m_bp_set,
               n |-> acc.n + 1])

\* A clear-everything that also resets the event triggers.
remove_all_breakpoints_clears_signals ==
  /\ call.op = "idle"
  /\ LET r == remove_all_breakpoints_loop(SetBegin(m_bp_set),
                 [err |-> "", bkpts |-> bkpts, m_bp_set |-> m_bp_set, n |-> 0])
     IN /\ bkpts' = r.bkpts
        /\ m_bp_set' = r.m_bp_set
        /\ call' = [Idle EXCEPT !.op = "remove_all_breakpoints", !.err = r.err,
                                !.n = r.n, !.retval = m_bp_set]
  /\ debug_on_error' = FALSE /\ m_errors_that_stop' = {}
  /\ debug_on_caught' = FALSE /\ m_caught_that_stop' = {}
  /\ debug_on_warning' = FALSE /\ m_warnings_that_stop' = {}
  /\ Vdebug_on_interrupt' = FALSE
  /\ UNCHANGED <<Vdebug_on_naninf, DBSTOP_NANINF>>

remove_all_breakpoints ==
  /\ call.op = "idle"
  /\ LET r == remove_all_breakpoints_loop(SetBegin(m_bp_set),
                 [err |-> "", bkpts |-> bkpts, m_bp_set |-> m_bp_set, n |-> 0])
     IN /\ bkpts' = r.bkpts
        /\ m_bp_set' = r.m_bp_set
        /\ call' = [Idle EXCEPT !.op = "remove_all_breakpoints", !.err = r.err,
                                !.n = r.n, !.retval = m_bp_set]
  /\ UNCHANGED trigvars

(***************************************************************************)
(* bp_table::get_breakpoint_list, on the table tb = [bkpts, m_bp_set].     *)
(* The result is the set of <<key, lines>> entries of the returned map.    *)
(***************************************************************************)
find_bkpt_list(slist, match) ==
  IF \E i \in 1 .. Len(slist) : slist[i] = match THEN match ELSE << >>

get_breakpoint_list(fname_list, tb) ==
  UNION {
    IF (fname_list = << >> \/ find_bkpt_list(fname_list, bp_fname) # << >>)
       /\ get_user_code(bp_fname) # NULL
    THEN LET dbg_fcn == get_user_code(bp_fname)
         IN {<<bp_fname, tb.bkpts[dbg_fcn]>> : x \in {y \in {1} : tb.bkpts[dbg_fcn] # {}}}
            \cup
            {<<Append(bp_fname, subfcn_nm), tb.bkpts[subfcn_nm]>> :
               subfcn_nm \in {s \in subfunctions(dbg_fcn) :
                                /\ \E k \in 1 .. Len(subfunction_names(dbg_fcn)) :
                                      subfunction_names(dbg_fcn)[k] = s
                                /\ tb.bkpts[s] # {}}}
    ELSE {}
    : bp_fname \in tb.m_bp_set}

(***************************************************************************)
(* Argument values (octave_value).  A string is the sequence of its        *)
(* characters; a numeric value is the sequence of its elements.            *)
(***************************************************************************)
Str(chars) == [type |-> "string", chars |-> chars, elems |-> << >>]
Num(elems) == [type |-> "numeric", chars |-> << >>, elems |-> elems]
CellOf(elems) == [type |-> "cell", chars |-> << >>, elems |-> elems]
CellValue == [type |-> "cell", chars |-> << >>, elems |-> << >>]
\* octave_value (): the undefined value.
UndefinedValue == [type |-> "undefined", chars |-> << >>, elems |-> << >>]

S_in == <<"i", "n">>
S_at == <<"a", "t">>
S_if == <<"i", "f">>
S_fa == <<"f", "a">>
S_5 == <<"5">>
S_error == <<"e", "r", "r", "o", "r">>
S_warning == <<"w", "a", "r", "n", "i", "n", "g">>
S_caught == <<"c", "a", "u", "g", "h", "t">>
S_interrupt == <<"i", "n", "t", "e", "r", "r", "u", "p", "t">>
S_naninf == <<"n", "a", "n", "i", "n", "f">>
S_Xy == <<"X", ":", "y">>
S_Wz == <<"W", ":", "z">>

is_string(v) == v.type = "string"
isnumeric(v) == v.type = "numeric"

\* octave_value::string_value: a numeric value converts to the characters with
\* those codes (none of them a digit here); a cell has no string value.
string_value_fails(v) == v.type = "cell"
string_value(v) ==
  IF is_string(v) THEN v.chars ELSE [i \in 1 .. Len(v.elems) |-> "ctrl"]

DigitValue(c) ==
  CASE c = "0" -> 0 [] c = "1" -> 1 [] c = "2" -> 2 [] c = "3" -> 3 [] c = "4" -> 4
    [] c = "5" -> 5 [] c = "6" -> 6 [] c = "7" -> 7 [] c = "8" -> 8 [] c = "9" -> 9
    [] OTHER -> 0 - 1

RECURSIVE atoi_digits(_, _, _)
atoi_digits(chars, i, acc) ==
  IF i > Len(chars) \/ DigitValue(chars[i]) < 0 THEN acc
  ELSE atoi_digits(chars, i + 1, 10 * acc + DigitValue(chars[i]))

RECURSIVE atoi_from(_, _)
\* atoi: leading blanks, an optional sign, then the digits up to the first
\* character that is none.
atoi_from(chars, i) ==
  IF i > Len(chars) THEN 0
  ELSE IF chars[i] = " " THEN atoi_from(chars, i + 1)
  ELSE IF chars[i] = "-" THEN 0 - atoi_digits(chars, i + 1, 0)
  ELSE IF chars[i] = "+" THEN atoi_digits(chars, i + 1, 0)
  ELSE atoi_digits(chars, i, 0)

atoi(chars) == atoi_from(chars, 1)

(***************************************************************************)
(* The stop-on-event state, as one record tr.                              *)
(***************************************************************************)
\* set_stop_flag with the caught branch setting the flag of the error branch.
set_stop_flag_caught_as_error(condition, on_off, tr) ==
  IF condition = S_error THEN [tr EXCEPT !.debug_on_error = on_off]
  ELSE IF condition = S_warning THEN [tr EXCEPT !.debug_on_warning = on_off]
  ELSE IF condition = S_caught THEN [tr EXCEPT !.debug_on_error = on_off]
  ELSE tr

\* bp_table::set_stop_flag; condition is "error", "warning" or "caught".
set_stop_flag(condition, on_off, tr) ==
  IF condition = S_error THEN [tr EXCEPT !.debug_on_error = on_off]
  ELSE IF condition = S_warning THEN [tr EXCEPT !.debug_on_warning = on_off]
  ELSE IF condition = S_caught THEN [tr EXCEPT !.debug_on_caught = on_off]
  ELSE tr

\* process_id_list without id_list.clear () in the unqualified branch.
process_id_list_keeps_ids(condition, args, nargin, pos, on_off, id_list, tr) ==
  IF nargin > pos + 1
  THEN IF ~ is_string(args[pos + 2]) \/ nargin > pos + 2
       THEN [err |-> "ID must be a single string", tr |-> tr]
       ELSE IF on_off
       THEN [err |-> "",
             tr |-> set_stop_flag(condition, TRUE,
                      [tr EXCEPT ![id_list] = @ \cup {string_value(args[pos + 2])}])]
       ELSE LET erased == [tr EXCEPT ![id_list] = @ \ {string_value(args[pos + 2])}]
            IN [err |-> "",
                tr |-> IF erased[id_list] = {}
                       THEN set_stop_flag(condition, FALSE, erased)
                       ELSE erased]
  ELSE LET cleared == set_stop_flag(condition, on_off, tr)
       IN [err |-> "",
           tr |-> IF condition = S_error
                  THEN [cleared EXCEPT !.Vdebug_on_interrupt = on_off]
                  ELSE cleared]


\* process_id_list without the assignment to Vdebug_on_interrupt.
process_id_list_no_interrupt(condition, args, nargin, pos, on_off, id_list, tr) ==
  IF nargin > pos + 1
  THEN IF ~ is_string(args[pos + 2]) \/ nargin > pos + 2
       THEN [err |-> "ID must be a single string", tr |-> tr]
       ELSE IF on_off
       THEN [err |-> "",
             tr |-> set_stop_flag(condition, TRUE,
                      [tr EXCEPT ![id_list] = @ \cup {string_value(args[pos + 2])}])]
       ELSE LET erased == [tr EXCEPT ![id_list] = @ \ {string_value(args[pos + 2])}]
            IN [err |-> "",
                tr |-> IF erased[id_list] = {}
                       THEN set_stop_flag(condition, FALSE, erased)
                       ELSE erased]
  ELSE LET cleared == set_stop_flag(condition, on_off, [tr EXCEPT ![id_list] = {}])
       IN [err |-> "",
           tr |-> cleared]


\* process_id_list with Vdebug_on_interrupt assigned for a single ID too.
process_id_list_interrupt_with_id(condition, args, nargin, pos, on_off, id_list, tr) ==
  IF nargin > pos + 1
  THEN IF ~ is_string(args[pos + 2]) \/ nargin > pos + 2
       THEN [err |-> "ID must be a single string", tr |-> tr]
       ELSE IF on_off
       THEN [err |-> "",
             tr |-> set_stop_flag(condition, TRUE,
                      [tr EXCEPT ![id_list] = @ \cup {string_value(args[pos + 2])}])]
       ELSE LET erased == [tr EXCEPT ![id_list] = @ \ {string_value(args[pos + 2])},
                                     !.Vdebug_on_interrupt = on_off]
            IN [err |-> "",
                tr |-> IF erased[id_list] = {}
                       THEN set_stop_flag(condition, FALSE, erased)
                       ELSE erased]
  ELSE LET cleared == set_stop_flag(condition, on_off, [tr EXCEPT ![id_list] = {}])
       IN [err |-> "",
           tr |-> IF condition = S_error
                  THEN [cleared EXCEPT !.Vdebug_on_interrupt = on_off]
                  ELSE cleared]


\* A process_id_list whose erase turns the flag off whatever is left in the set.
process_id_list_erase_turns_off(condition, args, nargin, pos, on_off, id_list, tr) ==
  IF nargin > pos + 1
  THEN IF ~ is_string(args[pos + 2]) \/ nargin > pos + 2
       THEN [err |-> "ID must be a single string", tr |-> tr]
       ELSE IF on_off
       THEN [err |-> "",
             tr |-> set_stop_flag(condition, TRUE,
                      [tr EXCEPT ![id_list] = @ \cup {string_value(args[pos + 2])}])]
       ELSE [err |-> "",
             tr |-> set_stop_flag(condition, FALSE,
                      [tr EXCEPT ![id_list] = @ \ {string_value(args[pos + 2])}])]
  ELSE LET cleared == set_stop_flag(condition, on_off, [tr EXCEPT ![id_list] = {}])
       IN [err |-> "",
           tr |-> IF condition = S_error
                  THEN [cleared EXCEPT !.Vdebug_on_interrupt = on_off]
                  ELSE cleared]

\* bp_table::process_id_list; id_list names the set of tr that is passed by
\* reference, pos is the value of pos at the call.  The result is [err, tr].
process_id_list(condition, args, nargin, pos, on_off, id_list, tr) ==
  IF nargin > pos + 1
  THEN IF ~ is_string(args[pos + 2]) \/ nargin > pos + 2
       THEN [err |-> "ID must be a single string", tr |-> tr]
       ELSE IF on_off
       THEN [err |-> "",
             tr |-> set_stop_flag(condition, TRUE,
                      [tr EXCEPT ![id_list] = @ \cup {string_value(args[pos + 2])}])]
       ELSE LET erased == [tr EXCEPT ![id_list] = @ \ {string_value(args[pos + 2])}]
            IN [err |-> "",
                tr |-> IF erased[id_list] = {}
                       THEN set_stop_flag(condition, FALSE, erased)
                       ELSE erased]
  ELSE LET cleared == set_stop_flag(condition, on_off, [tr EXCEPT ![id_list] = {}])
       IN [err |-> "",
           tr |-> IF condition = S_error
                  THEN [cleared EXCEPT !.Vdebug_on_interrupt = on_off]
                  ELSE cleared]

(***************************************************************************)
(* bp_table::parse_dbfunction_params.  ps holds the arguments, the locals  *)
(* of the function, its output parameters and the stop-on-event state.     *)
(* pos counts from 0 as in the code: args(pos) is ps.args[ps.pos + 1].     *)
(***************************************************************************)
\* The name of the routine the debugger is stopped in.
DebuggedFcn == S_fa

parse_enter(who, args, in_debug_repl, tr) ==
  LET ps == [who |-> who, args |-> args, nargin |-> Len(args),
             in_debug_repl |-> in_debug_repl,
             pos |-> 0, tok |-> "dbstop_none",
             seen_in |-> FALSE, seen_at |-> FALSE, seen_if |-> FALSE,
             func_name |-> << >>, class_name |-> << >>, lines |-> << >>,
             cond |-> << >>, err |-> "", warned |-> FALSE, done |-> FALSE,
             passes |-> 0, tr |-> tr]
  IN IF Len(args) = 0 \/ ~ is_string(args[1])
     THEN [ps EXCEPT !.err = "usage", !.done = TRUE]
     ELSE ps

Fail(ps, msg) == [ps EXCEPT !.err = msg, !.done = TRUE]

\* Lines 307-332: the kind of clause at pos; a keyword is consumed.
parse_classify(ps) ==
  LET v == ps.args[ps.pos + 1]
  IN IF is_string(v)
     THEN IF v.chars = S_in THEN [ps EXCEPT !.tok = "dbstop_in", !.pos = @ + 1]
          ELSE IF v.chars = S_at THEN [ps EXCEPT !.tok = "dbstop_at", !.pos = @ + 1]
          ELSE IF v.chars = S_if THEN [ps EXCEPT !.tok = "dbstop_if", !.pos = @ + 1]
          ELSE IF atoi(v.chars) > 0 THEN [ps EXCEPT !.tok = "dbstop_at"]
          ELSE [ps EXCEPT !.tok = "dbstop_in"]
     ELSE [ps EXCEPT !.tok = "dbstop_at"]

\* A case dbstop_in that takes a second function name without complaint and
\* without moving on.
parse_in_ignores_repeat(ps) ==
  LET v == ps.args[ps.pos + 1]
  IN IF string_value_fails(v) THEN Fail(ps, "wrong type argument")
     ELSE LET ps1 == [ps EXCEPT !.func_name = string_value(v)]
          IN IF ps.seen_in THEN ps1
             ELSE IF ps.seen_at \/ ps.seen_if
             THEN Fail(ps1, "function name must come before line number and 'if'")
             ELSE [ps1 EXCEPT !.seen_in = TRUE, !.pos = @ + 1]

\* case dbstop_in.
parse_in(ps) ==
  LET v == ps.args[ps.pos + 1]
  IN IF string_value_fails(v) THEN Fail(ps, "wrong type argument")
     ELSE LET ps1 == [ps EXCEPT !.func_name = string_value(v)]
          IN IF ps.seen_in THEN Fail(ps1, "Too many function names specified")
             ELSE IF ps.seen_at \/ ps.seen_if
             THEN Fail(ps1, "function name must come before line number and 'if'")
             ELSE [ps1 EXCEPT !.seen_in = TRUE, !.pos = @ + 1]

RECURSIVE parse_lines(_)
\* The loop that reads a list of line numbers or arrays of them.
parse_lines(ps) ==
  IF ps.pos >= ps.nargin THEN ps
  ELSE
    LET v == ps.args[ps.pos + 1]
    IN IF is_string(v)
       THEN IF atoi(v.chars) > 0
            THEN parse_lines([ps EXCEPT !.lines = Append(@, atoi(v.chars)),
                                        !.pos = @ + 1])
            ELSE ps
       ELSE IF isnumeric(v)
       THEN parse_lines([ps EXCEPT !.lines = @ \o v.elems, !.pos = @ + 1])
       ELSE Fail(ps, "Invalid argument type")

\* parse_at that never takes the function name from the debugger.
parse_at_without_debugger(ps) ==
  LET v == ps.args[ps.pos + 1]
  IN IF ps.seen_at
     THEN IF string_value_fails(v) THEN Fail(ps, "wrong type argument")
          ELSE Fail(ps, "Only one 'at' clause is allowed")
     ELSE IF ps.seen_if THEN Fail(ps, "line number must come before 'if' clause")
     ELSE
       LET ps1 == [ps EXCEPT !.seen_at = TRUE]
       IN IF ps1.seen_in
          THEN IF string_value_fails(v) THEN Fail(ps1, "wrong type argument")
               ELSE IF atoi(string_value(v)) = 0
               THEN [ps1 EXCEPT !.class_name = ps1.func_name,
                                !.func_name = string_value(v),
                                !.pos = @ + 1]
               ELSE parse_lines(ps1)
          ELSE Fail(ps1, "function name must come before line number and 'if'")

\* case dbstop_at.
parse_at(ps) ==
  LET v == ps.args[ps.pos + 1]
  IN IF ps.seen_at
     THEN IF string_value_fails(v) THEN Fail(ps, "wrong type argument")
          ELSE Fail(ps, "Only one 'at' clause is allowed")
     ELSE IF ps.seen_if THEN Fail(ps, "line number must come before 'if' clause")
     ELSE
       LET ps1 == [ps EXCEPT !.seen_at = TRUE]
       IN IF ps1.seen_in
          THEN IF string_value_fails(v) THEN Fail(ps1, "wrong type argument")
               ELSE IF atoi(string_value(v)) = 0
               THEN [ps1 EXCEPT !.class_name = ps1.func_name,
                                !.func_name = string_value(v),
                                !.pos = @ + 1]
               ELSE parse_lines(ps1)
          ELSE IF ps1.in_debug_repl
          THEN parse_lines([ps1 EXCEPT !.func_name = DebuggedFcn, !.seen_in = TRUE])
          ELSE Fail(ps1, "function name must come before line number and 'if'")

RECURSIVE parse_condition(_)
\* The loop that joins the remaining arguments into the condition.
parse_condition(ps) ==
  IF ps.pos >= ps.nargin THEN ps
  ELSE
    LET v == ps.args[ps.pos + 1]
    IN IF is_string(v)
       THEN parse_condition([ps EXCEPT !.cond = @ \o <<" ">> \o v.chars,
                                       !.pos = @ + 1])
       ELSE Fail(ps, "arguments to 'if' must all be strings")

\* case dbstop_if, stop on event.
parse_event(ps) ==
  LET v == ps.args[ps.pos + 1]
      on_off == ps.who = "dbstop"
      finish(r) == IF r.err # "" THEN Fail(ps, r.err)
                   ELSE [ps EXCEPT !.tr = r.tr, !.pos = ps.nargin]
  IN IF string_value_fails(v) THEN Fail(ps, "wrong type argument")
     ELSE
       LET condition == string_value(v)
       IN IF condition = S_error
          THEN finish(process_id_list(condition, ps.args, ps.nargin, ps.pos, on_off,
                                      "m_errors_that_stop", ps.tr))
          ELSE IF condition = S_warning
          THEN finish(process_id_list(condition, ps.args, ps.nargin, ps.pos, on_off,
                                      "m_warnings_that_stop", ps.tr))
          ELSE IF /\ condition = S_caught
                  /\ ps.nargin > ps.pos + 1
                  /\ string_value_fails(ps.args[ps.pos + 2])
          THEN Fail(ps, "wrong type argument")
          ELSE IF /\ condition = S_caught
                  /\ ps.nargin > ps.pos + 1
                  /\ string_value(ps.args[ps.pos + 2]) = S_error
          THEN finish(process_id_list(condition, ps.args, ps.nargin, ps.pos + 1,
                                      on_off, "m_caught_that_stop", ps.tr))
          ELSE IF condition = S_interrupt
          THEN [ps EXCEPT !.tr.Vdebug_on_interrupt = on_off, !.pos = ps.nargin]
          ELSE IF condition = S_naninf
          THEN IF DBSTOP_NANINF
               THEN [ps EXCEPT !.tr.Vdebug_on_naninf = on_off, !.pos = ps.nargin]
               ELSE [ps EXCEPT !.warned = TRUE, !.pos = ps.nargin]
          ELSE Fail(ps, "invalid condition")

\* case dbstop_if.
parse_if(ps) ==
  IF ps.seen_in
  THEN LET ps1 == parse_condition([ps EXCEPT !.cond = << >>])
       IN IF ps1.err # "" THEN ps1
          ELSE [ps1 EXCEPT !.cond = SubSeq(@, 2, Len(@))]
  ELSE parse_event(ps)

\* One pass of the while loop; done tells that the function has returned or thrown.
parse_pass(ps) ==
  LET ps1 == [parse_classify(ps) EXCEPT !.passes = @ + 1]
      ps2 == IF ps1.pos >= ps1.nargin THEN Fail(ps1, "missing argument")
             ELSE IF ps1.tok = "dbstop_in" THEN parse_in(ps1)
             ELSE IF ps1.tok = "dbstop_at" THEN parse_at(ps1)
             ELSE parse_if(ps1)
  IN [ps2 EXCEPT !.done = (ps2.err # "" \/ ps2.pos >= ps2.nargin)]

RECURSIVE parse_loop(_)
parse_loop(ps) == IF ps.done THEN ps ELSE parse_loop(parse_pass(ps))

\* The whole call.
parse_dbfunction_params(who, args, in_debug_repl, tr) ==
  parse_loop(parse_enter(who, args, in_debug_repl, tr))

(***************************************************************************)
(* The stop-on-event commands.                                             *)
(***************************************************************************)
TrigRec ==
  [debug_on_error |-> debug_on_error,
   debug_on_caught |-> debug_on_caught,
   debug_on_warning |-> debug_on_warning,
   m_errors_that_stop |-> m_errors_that_stop,
   m_caught_that_stop |-> m_caught_that_stop,
   m_warnings_that_stop |-> m_warnings_that_stop,
   Vdebug_on_interrupt |-> Vdebug_on_interrupt,
   Vdebug_on_naninf |-> Vdebug_on_naninf]

SetTrig(tr) ==
  /\ debug_on_error' = tr.debug_on_error
  /\ debug_on_caught' = tr.debug_on_caught
  /\ debug_on_warning' = tr.debug_on_warning
  /\ m_errors_that_stop' = tr.m_errors_that_stop
  /\ m_caught_that_stop' = tr.m_caught_that_stop
  /\ m_warnings_that_stop' = tr.m_warnings_that_stop
  /\ Vdebug_on_interrupt' = tr.Vdebug_on_interrupt
  /\ Vdebug_on_naninf' = tr.Vdebug_on_naninf
  /\ UNCHANGED DBSTOP_NANINF

\* dbstop or dbclear with the arguments args: the whole parse.  pre keeps the
\* stop-on-event state the command started from.
dbstop_or_dbclear(who, args, in_debug_repl) ==
  LET ps == parse_dbfunction_params(who, args, in_debug_repl, TrigRec)
  IN /\ SetTrig(ps.tr)
     /\ call' = [op |-> "parse_dbfunction_params", pre |-> TrigRec, ps |-> ps]
     /\ UNCHANGED tablevars

\* The assignments of dbclear_all_signals, on the record tr.
all_signals_cleared(tr) ==
  [tr EXCEPT !.debug_on_error = FALSE,
             !.m_errors_that_stop = {},
             !.debug_on_caught = FALSE,
             !.m_caught_that_stop = {},
             !.debug_on_warning = FALSE,
             !.m_warnings_that_stop = {},
             !.Vdebug_on_interrupt = FALSE]

dbclear_all_signals ==
  /\ SetTrig(all_signals_cleared(TrigRec))
  /\ call' = [op |-> "dbclear_all_signals", pre |-> TrigRec]
  /\ UNCHANGED tablevars

(***************************************************************************)
(* bp_table::dbstop_process_map_args.  mv is the record of the fields      *)
(* errs, caught, warn and intr, each the sequence of the values of the     *)
(* field: what mv.contents (field) returns.                                *)
(***************************************************************************)
isempty(v) == Len(v.chars) = 0 /\ Len(v.elems) = 0
iscell(v) == v.type = "cell"

RECURSIVE process_map_cell(_, _, _, _, _)
\* The loop over the cell V: insert V(i).string_value (), then set the flag.
process_map_cell(V, i, flag, id_list, tr) ==
  IF i > Len(V) THEN [err |-> "", tr |-> tr]
  ELSE IF string_value_fails(V[i]) THEN [err |-> "wrong type argument", tr |-> tr]
  ELSE process_map_cell(V, i + 1, flag, id_list,
         [tr EXCEPT ![id_list] = @ \cup {string_value(V[i])}, ![flag] = TRUE])

\* One of the three blocks "process errs / caught / warn".
process_map_field(U, name, flag, id_list, tr) ==
  IF Len(U) # 1
  THEN [err |-> IF Len(U) > 1 THEN name ELSE "", tr |-> tr]
  ELSE IF isempty(U[1]) THEN [err |-> "", tr |-> [tr EXCEPT ![flag] = TRUE]]
  ELSE IF ~ iscell(U[1]) THEN [err |-> name, tr |-> tr]
  ELSE process_map_cell(U[1].elems, 1, flag, id_list, tr)

\* A dbstop_process_map_args that does not look at the field intr.
dbstop_process_map_args_without_intr(mv, tr) ==
  LET e == process_map_field(mv.errs, "invalid 'errs' field",
                             "debug_on_error", "m_errors_that_stop", tr)
      c == process_map_field(mv.caught, "invalid 'caught' field",
                             "debug_on_caught", "m_caught_that_stop", e.tr)
      w == process_map_field(mv.warn, "invalid 'warn' field",
                             "debug_on_warning", "m_warnings_that_stop", c.tr)
  IN IF e.err # "" THEN e
     ELSE IF c.err # "" THEN c
     ELSE w

\* The result is [err, tr]; an error ends the call where it is thrown.
dbstop_process_map_args(mv, tr) ==
  LET e == process_map_field(mv.errs, "invalid 'errs' field",
                             "debug_on_error", "m_errors_that_stop", tr)
      c == process_map_field(mv.caught, "invalid 'caught' field",
                             "debug_on_caught", "m_caught_that_stop", e.tr)
      w == process_map_field(mv.warn, "invalid 'warn' field",
                             "debug_on_warning", "m_warnings_that_stop", c.tr)
  IN IF e.err # "" THEN e
     ELSE IF c.err # "" THEN c
     ELSE IF w.err # "" THEN w
     ELSE [err |-> "",
           tr |-> IF mv.intr # << >> THEN [w.tr EXCEPT !.Vdebug_on_interrupt = TRUE]
                  ELSE w.tr]

\* dbstop (p) with the struct p.
dbstop_map(mv) ==
  LET r == dbstop_process_map_args(mv, TrigRec)
  IN /\ SetTrig(r.tr)
     /\ call' = [op |-> "dbstop_process_map_args", mv |-> mv, pre |-> TrigRec,
                 err |-> r.err]
     /\ UNCHANGED tablevars

\* The values of a field errs, caught or warn: not there, empty, a string, a
\* cell of one or two identifiers, a cell whose second element is a cell, and
\* the field of a struct array of two elements.
MapFieldValues ==
  {<< >>, <<Str(<< >>)>>, <<Str(S_Xy)>>, <<CellOf(<<Str(S_Xy)>>)>>,
   <<CellOf(<<Str(S_Wz), Str(S_Xy)>>)>>, <<CellOf(<<Str(S_Wz), CellValue>>)>>,
   <<Str(<< >>), Str(<< >>)>>}

MapValues ==
  [errs : MapFieldValues, caught : MapFieldValues, warn : MapFieldValues,
   intr : {<< >>, <<UndefinedValue>>}]

(***************************************************************************)
(* bp_table::stop_on_err_warn_status.  An octave_map is the record of its  *)
(* fields, each the sequence of its values: << >> for a field that is not  *)
(* there, <<v>> for the field of a scalar struct.                          *)
(***************************************************************************)
\* The order in which a std::set of identifiers is walked.
IdOrder == <<<<"ctrl">>, S_Wz, S_Xy>>

\* Cell errs (dim_vector (size, 1)) filled in the order of the set.
IdCell(ids) ==
  LET ordered == SelectSeq(IdOrder, LAMBDA s : s \in ids)
  IN CellOf([i \in 1 .. Len(ordered) |-> Str(ordered[i])])

\* The lines written to octave_stdout for one trigger.
StatusLines(head, ids) ==
  IF ids = {} THEN <<[text |-> head, id |-> << >>]>>
  ELSE LET ordered == SelectSeq(IdOrder, LAMBDA s : s \in ids)
       IN [i \in 1 .. Len(ordered) |-> [text |-> head, id |-> ordered[i]]]

\* stop_on_err_warn_status with the warn field filled from m_errors_that_stop.
stop_on_err_warn_status_warn_from_errors(to_screen, tr) ==
  LET field(flag, ids) ==
        IF flag /\ ~ to_screen
        THEN IF ids = {} THEN <<Str(<< >>)>> ELSE <<IdCell(ids)>>
        ELSE << >>
      lines(flag, head, ids) ==
        IF flag /\ to_screen THEN StatusLines(head, ids) ELSE << >>
  IN [retval |->
        [errs |-> field(tr.debug_on_error, tr.m_errors_that_stop),
         caught |-> field(tr.debug_on_caught, tr.m_caught_that_stop),
         warn |-> field(tr.debug_on_warning, tr.m_errors_that_stop),
         intr |-> IF tr.Vdebug_on_interrupt /\ ~ to_screen
                  THEN <<UndefinedValue>> ELSE << >>],
      out |->
        lines(tr.debug_on_error, "stop if error", tr.m_errors_that_stop)
        \o lines(tr.debug_on_caught, "stop if caught error", tr.m_caught_that_stop)
        \o lines(tr.debug_on_warning, "stop if warning", tr.m_warnings_that_stop)
        \o (IF tr.Vdebug_on_interrupt /\ to_screen
            THEN <<[text |-> "stop if interrupt", id |-> << >>]>> ELSE << >>)]

\* The result is [retval, out]: the map returned and the lines written.
stop_on_err_warn_status(to_screen, tr) ==
  LET field(flag, ids) ==
        IF flag /\ ~ to_screen
        THEN IF ids = {} THEN <<Str(<< >>)>> ELSE <<IdCell(ids)>>
        ELSE << >>
      lines(flag, head, ids) ==
        IF flag /\ to_screen THEN StatusLines(head, ids) ELSE << >>
  IN [retval |->
        [errs |-> field(tr.debug_on_error, tr.m_errors_that_stop),
         caught |-> field(tr.debug_on_caught, tr.m_caught_that_stop),
         warn |-> field(tr.debug_on_warning, tr.m_warnings_that_stop),
         intr |-> IF tr.Vdebug_on_interrupt /\ ~ to_screen
                  THEN <<UndefinedValue>> ELSE << >>],
      out |->
        lines(tr.debug_on_error, "stop if error", tr.m_errors_that_stop)
        \o lines(tr.debug_on_caught, "stop if caught error", tr.m_caught_that_stop)
        \o lines(tr.debug_on_warning, "stop if warning", tr.m_warnings_that_stop)
        \o (IF tr.Vdebug_on_interrupt /\ to_screen
            THEN <<[text |-> "stop if interrupt", id |-> << >>]>> ELSE << >>)]

\* dbstatus: the report of the stop-on-event state.
dbstatus(to_screen) ==
  LET r == stop_on_err_warn_status(to_screen, TrigRec)
  IN /\ call' = [op |-> "stop_on_err_warn_status", to_screen |-> to_screen,
                 retval |-> r.retval, out |-> r.out]
     /\ UNCHANGED <<tablevars, trigvars>>

Whos == {"dbstop", "dbclear"}

\* What may follow the event of a stop-on-event command.
IdValues == {Str(S_Xy), Str(S_Wz), Num(<<7>>), CellValue}

EventHeads ==
  {<<Str(S_if), Str(S_error)>>, <<Str(S_if), Str(S_warning)>>,
   <<Str(S_if), Str(S_caught), Str(S_error)>>, <<Str(S_if), Str(S_caught)>>,
   <<Str(S_if), Str(S_interrupt)>>, <<Str(S_if), Str(S_naninf)>>}

EventArgLists ==
  {h \o t : h \in EventHeads, t \in UNION {[1 .. n -> IdValues] : n \in 0 .. MaxIds}}

\* The values of the arguments of a general command.
ArgValues ==
  {Str(S_in), Str(S_at), Str(S_if), Str(S_fa), Str(S_5), Num(<<7>>),
   Str(S_error), Str(S_interrupt), Str(S_Xy)}

ArgLists == UNION {[1 .. n -> ArgValues] : n \in 0 .. MaxArgs}

(***************************************************************************)
(* The command loop: one command at a time.                                *)
(***************************************************************************)
\* The command loop takes the result and prompts for the next command.
Prompt ==
  /\ call.op # "idle"
  /\ call' = Idle
  /\ UNCHANGED <<tablevars, trigvars>>

Init ==
  /\ bkpts = [r \in Routines |-> {}]
  /\ m_bp_set = {}
  /\ debug_on_error = FALSE
  /\ debug_on_caught = FALSE
  /\ debug_on_warning = FALSE
  /\ m_errors_that_stop = {}
  /\ m_caught_that_stop = {}
  /\ m_warnings_that_stop = {}
  /\ Vdebug_on_interrupt = FALSE
  /\ Vdebug_on_naninf = FALSE
  /\ DBSTOP_NANINF \in BOOLEAN
  /\ call = Idle

\* The commands of the table, each taken at the prompt with its arguments.
AddBreakpoint ==
  /\ call.op = "idle"
  /\ \E fname \in Names, line \in LineLists, condition \in Conditions :
       add_breakpoint(fname, line, condition)

RemoveBreakpoint ==
  /\ call.op = "idle"
  /\ \E fname \in Names, line \in LineLists : remove_breakpoint(fname, line)

RemoveAllBreakpointsInFile ==
  /\ call.op = "idle"
  /\ \E fname \in Names, silent \in BOOLEAN :
       remove_all_breakpoints_in_file(fname, silent)

RemoveAllBreakpoints ==
  /\ call.op = "idle"
  /\ remove_all_breakpoints

Next ==
  \/ AddBreakpoint
  \/ RemoveBreakpoint
  \/ RemoveAllBreakpointsInFile
  \/ RemoveAllBreakpoints
  \/ Prompt

Spec == Init /\ [][Next]_vars

(***************************************************************************)
(* The stop-on-event commands alone.                                       *)
(***************************************************************************)
StopOnEventCommand ==
  /\ call.op = "idle"
  /\ \E who \in Whos, args \in EventArgLists : dbstop_or_dbclear(who, args, FALSE)

ClearAllSignals ==
  /\ call.op = "idle"
  /\ dbclear_all_signals

StatusReport ==
  /\ call.op = "idle"
  /\ \E to_screen \in BOOLEAN : dbstatus(to_screen)

NextTrig ==
  \/ StopOnEventCommand
  \/ ClearAllSignals
  \/ StatusReport
  \/ Prompt

SpecTrig == Init /\ [][NextTrig]_vars

(***************************************************************************)
(* dbstop (p) with a struct, and the clear of all signals.                 *)
(***************************************************************************)
ProcessMapArgs ==
  /\ call.op = "idle"
  /\ \E mv \in MapValues : dbstop_map(mv)

NextMap ==
  \/ ProcessMapArgs
  \/ ClearAllSignals
  \/ Prompt

SpecMap == Init /\ [][NextMap]_vars

(***************************************************************************)
(* Breakpoints and event triggers side by side: a breakpoint at the first  *)
(* line of a file, the stop-on-event commands, and the clear of every      *)
(* breakpoint.                                                             *)
(***************************************************************************)
AddBreakpointAtEntry ==
  /\ call.op = "idle"
  /\ \E fname \in FileNames : add_breakpoint(fname, <<1>>, "")

NextFrame ==
  \/ StopOnEventCommand
  \/ AddBreakpointAtEntry
  \/ RemoveAllBreakpoints
  \/ Prompt

SpecFrame == Init /\ [][NextFrame]_vars

(***************************************************************************)
(* Every way of changing the event triggers: the commands, the struct      *)
(* form, the clear of all signals, and the status report.                  *)
(***************************************************************************)
NextSignals ==
  \/ StopOnEventCommand
  \/ ProcessMapArgs
  \/ ClearAllSignals
  \/ StatusReport
  \/ Prompt

SpecSignals == Init /\ [][NextSignals]_vars

(***************************************************************************)
(* The line resolver alone: one call of find_fcn_by_line on a routine, a   *)
(* line and an end_line pointer.                                           *)
(***************************************************************************)
ResolveLines == 1 .. 11

EndLines == {<< >>} \cup {<<v>> : v \in ResolveLines}

resolve(main_fcn, lineno, end_line) ==
  LET r == find_fcn_by_line(main_fcn, lineno, end_line)
  IN /\ call' = [op |-> "find_fcn_by_line", main_fcn |-> main_fcn,
                 lineno |-> lineno, end_line |-> end_line,
                 fcn |-> r.fcn, end_line_out |-> r.end_line]
     /\ UNCHANGED <<tablevars, trigvars>>

FindFcnByLine ==
  /\ call.op = "idle"
  /\ \E main_fcn \in Routines, lineno \in ResolveLines, end_line \in EndLines :
       resolve(main_fcn, lineno, end_line)

NextResolve ==
  \/ FindFcnByLine
  \/ Prompt

SpecResolve == Init /\ [][NextResolve]_vars

(***************************************************************************)
(* Properties of the stop-on-event commands.                               *)
(***************************************************************************)
\* The command just completed is dbstop/dbclear if <event> ..., without error.
EventCommandDone ==
  /\ call.op = "parse_dbfunction_params"
  /\ call.ps.err = ""
  /\ call.ps.nargin >= 2
  /\ call.ps.args[1] = Str(S_if)

\* The flag, the id set and the place of the identifier for the event named.
EventTrigger(args) ==
  IF args[2] = Str(S_error)
  THEN [flag |-> "debug_on_error", ids |-> "m_errors_that_stop", idpos |-> 3]
  ELSE IF args[2] = Str(S_warning)
  THEN [flag |-> "debug_on_warning", ids |-> "m_warnings_that_stop", idpos |-> 3]
  ELSE IF args[2] = Str(S_caught) /\ Len(args) >= 3 /\ args[3] = Str(S_error)
  THEN [flag |-> "debug_on_caught", ids |-> "m_caught_that_stop", idpos |-> 4]
  ELSE [flag |-> "", ids |-> "", idpos |-> 0]

\* C6: after an enable command that names an identifier, the identifier is in
\* the id set of the trigger and the flag is on; after a disable command that
\* names an identifier, the identifier is not in the id set and the flag is
\* off if the set is empty.
C6_IdentifierCommand ==
  EventCommandDone =>
    LET t == EventTrigger(call.ps.args)
    IN (t.idpos # 0 /\ call.ps.nargin = t.idpos) =>
         LET id == call.ps.args[t.idpos].chars
         IN IF call.ps.who = "dbstop"
            THEN id \in TrigRec[t.ids] /\ TrigRec[t.flag]
            ELSE id \notin TrigRec[t.ids] /\ (TrigRec[t.ids] = {} => ~ TrigRec[t.flag])

C6_Witness ==
  /\ EventCommandDone
  /\ call.ps.who = "dbclear"
  /\ call.ps.args = <<Str(S_if), Str(S_caught), Str(S_error), Str(S_Xy)>>
  /\ call.pre.m_caught_that_stop = {S_Xy}
  /\ call.pre.debug_on_caught
  /\ ~ debug_on_caught

\* C7: after an enable or disable command for error, warning or caught error
\* that names no identifier, the id set is empty and the flag is the
\* requested value.
C7_UnqualifiedCommand ==
  EventCommandDone =>
    LET t == EventTrigger(call.ps.args)
    IN (t.idpos # 0 /\ call.ps.nargin = t.idpos - 1) =>
         /\ TrigRec[t.ids] = {}
         /\ TrigRec[t.flag] = (call.ps.who = "dbstop")

C7_Witness ==
  /\ EventCommandDone
  /\ call.ps.who = "dbstop"
  /\ call.ps.args = <<Str(S_if), Str(S_warning)>>
  /\ call.pre.m_warnings_that_stop = {S_Xy, S_Wz}
  /\ m_warnings_that_stop = {}
  /\ debug_on_warning

\* C8: dbstop if error leaves the interrupt flag on.
C8_ErrorEnablesInterrupt ==
  (/\ EventCommandDone
   /\ call.ps.who = "dbstop"
   /\ call.ps.args = <<Str(S_if), Str(S_error)>>) => Vdebug_on_interrupt

C8_Witness ==
  /\ EventCommandDone
  /\ call.ps.who = "dbstop"
  /\ call.ps.args = <<Str(S_if), Str(S_error)>>
  /\ ~ call.pre.Vdebug_on_interrupt
  /\ Vdebug_on_interrupt

\* C9 as claimed: dbclear if error, with or without an identifier, leaves the
\* interrupt flag as it was.
C9_DisableErrorKeepsInterrupt ==
  (/\ EventCommandDone
   /\ call.ps.who = "dbclear"
   /\ call.ps.args[2] = Str(S_error)) =>
    Vdebug_on_interrupt = call.pre.Vdebug_on_interrupt

\* C9 as amended: dbclear if error with an identifier leaves the interrupt
\* flag as it was; dbclear if error without an identifier turns it off.
C9_DisableErrorInterrupt ==
  (/\ EventCommandDone
   /\ call.ps.who = "dbclear"
   /\ call.ps.args[2] = Str(S_error)) =>
    IF call.ps.nargin = 3
    THEN Vdebug_on_interrupt = call.pre.Vdebug_on_interrupt
    ELSE ~ Vdebug_on_interrupt

C9_Witness ==
  /\ EventCommandDone
  /\ call.ps.who = "dbclear"
  /\ call.ps.args = <<Str(S_if), Str(S_error), Str(S_Xy)>>
  /\ call.pre.Vdebug_on_interrupt
  /\ Vdebug_on_interrupt

\* C12: after dbclear_all_signals the error, caught error and warning flags
\* are off, their identifier sets are empty, and the interrupt flag and the
\* nan-inf flag are off.
C12_ClearAllSignalsClearsAll ==
  call.op = "dbclear_all_signals" =>
    /\ ~ debug_on_error /\ ~ debug_on_caught /\ ~ debug_on_warning
    /\ m_errors_that_stop = {}
    /\ m_caught_that_stop = {}
    /\ m_warnings_that_stop = {}
    /\ ~ Vdebug_on_interrupt
    /\ ~ Vdebug_on_naninf

\* What field (a sequence of values) reports for a trigger that is on with
\* the identifier set ids: the empty marker for no identifier, else a cell
\* that holds exactly the identifiers.
ReportsTrigger(field, ids) ==
  /\ Len(field) = 1
  /\ IF ids = {}
     THEN field[1] = Str(<< >>)
     ELSE /\ field[1].type = "cell"
          /\ Len(field[1].elems) = Cardinality(ids)
          /\ {field[1].elems[i].chars : i \in 1 .. Len(field[1].elems)} = ids
          /\ \A i \in 1 .. Len(field[1].elems) : is_string(field[1].elems[i])

\* C13: the map returned by stop_on_err_warn_status (false) has the field of
\* a trigger if and only if the flag of the trigger is on; errs, caught and
\* warn hold the empty marker exactly when the identifier set is empty and
\* otherwise exactly the identifiers of the set.
C13_StatusFields ==
  (call.op = "stop_on_err_warn_status" /\ ~ call.to_screen) =>
    /\ call.retval.errs # << >> <=> debug_on_error
    /\ call.retval.caught # << >> <=> debug_on_caught
    /\ call.retval.warn # << >> <=> debug_on_warning
    /\ call.retval.intr # << >> <=> Vdebug_on_interrupt
    /\ debug_on_error => ReportsTrigger(call.retval.errs, m_errors_that_stop)
    /\ debug_on_caught => ReportsTrigger(call.retval.caught, m_caught_that_stop)
    /\ debug_on_warning => ReportsTrigger(call.retval.warn, m_warnings_that_stop)

C13_Witness ==
  /\ call.op = "stop_on_err_warn_status"
  /\ ~ call.to_screen
  /\ debug_on_error /\ m_errors_that_stop = {}
  /\ debug_on_warning /\ m_warnings_that_stop = {S_Xy, S_Wz}
  /\ ~ debug_on_caught
  /\ call.retval.errs = <<Str(<< >>)>>
  /\ call.retval.caught = << >>

\* What the claim requires of a trigger after dbstop (p) for the field U.
MapFieldApplied(U, flag, ids) ==
  (Len(U) = 1 /\ (isempty(U[1]) \/ iscell(U[1]))) =>
    /\ flag
    /\ ids = {U[1].elems[i].chars : i \in 1 .. Len(U[1].elems)}

\* C14: after dbstop_process_map_args on a record whose field errs (caught,
\* warn) is there with an empty value, the flag of the trigger is on and its
\* identifier set is empty; when the field holds a list of identifiers, the
\* flag is on and the identifier set is exactly that list.
C14_MapArgsSetTriggers ==
  (call.op = "dbstop_process_map_args" /\ call.err = "") =>
    /\ MapFieldApplied(call.mv.errs, debug_on_error, m_errors_that_stop)
    /\ MapFieldApplied(call.mv.caught, debug_on_caught, m_caught_that_stop)
    /\ MapFieldApplied(call.mv.warn, debug_on_warning, m_warnings_that_stop)

(***************************************************************************)
(* One parse_dbfunction_params call on any argument list, pass by pass,    *)
(* from the state after construction.                                      *)
(***************************************************************************)
InitParse ==
  /\ bkpts = [r \in Routines |-> {}]
  /\ m_bp_set = {}
  /\ debug_on_error = FALSE
  /\ debug_on_caught = FALSE
  /\ debug_on_warning = FALSE
  /\ m_errors_that_stop = {}
  /\ m_caught_that_stop = {}
  /\ m_warnings_that_stop = {}
  /\ Vdebug_on_interrupt = FALSE
  /\ Vdebug_on_naninf = FALSE
  /\ DBSTOP_NANINF \in BOOLEAN
  /\ \E who \in Whos, args \in ArgLists, in_debug_repl \in BOOLEAN :
       call = [op |-> "parse_dbfunction_params", pre |-> TrigRec,
               ps |-> parse_enter(who, args, in_debug_repl, TrigRec)]

ParsePass ==
  /\ call.op = "parse_dbfunction_params"
  /\ ~ call.ps.done
  /\ call.ps.passes < MaxPasses
  /\ \E ps \in {parse_pass(call.ps)} :
       /\ call' = [call EXCEPT !.ps = ps]
       /\ SetTrig(ps.tr)
  /\ UNCHANGED tablevars

NextParse == ParsePass

SpecParse == InitParse /\ [][NextParse]_vars

(***************************************************************************)
(* The same call run to its end: the while loop takes its next pass as     *)
(* long as pos < nargin and no error was raised.  The argument lists also  *)
(* hold a string whose atoi is negative, which is neither a line number    *)
(* nor a method name.                                                      *)
(***************************************************************************)
S_m5 == <<"-", "5">>

LoopArgLists == UNION {[1 .. n -> ArgValues \cup {Str(S_m5)}] : n \in 0 .. MaxLoopArgs}

ParseEnter ==
  /\ call.op = "idle"
  /\ \E who \in Whos, args \in LoopArgLists, in_debug_repl \in BOOLEAN :
       call' = [op |-> "parse_dbfunction_params", pre |-> TrigRec,
                ps |-> parse_enter(who, args, in_debug_repl, TrigRec)]
  /\ UNCHANGED <<tablevars, trigvars>>

NextParseLoop ==
  \/ ParseEnter
  \/ ParsePass

SpecParseLoop == Init /\ [][NextParseLoop]_vars /\ WF_vars(ParsePass)

\* The stop-on-event state after the status is taken as a struct, all signals
\* are cleared and the struct is given back to dbstop: [err, tr].
StatusRestored ==
  LET s == stop_on_err_warn_status(FALSE, TrigRec).retval
  IN dbstop_process_map_args(s, all_signals_cleared(TrigRec))

\* C27: from every reachable stop-on-event state, the status struct, then the
\* clear of all signals, then dbstop with the struct gives back the same three
\* flags, the same three identifier sets and the same interrupt flag.
C27_StatusRoundTrip ==
  /\ StatusRestored.err = ""
  /\ StatusRestored.tr.debug_on_error = debug_on_error
  /\ StatusRestored.tr.debug_on_caught = debug_on_caught
  /\ StatusRestored.tr.debug_on_warning = debug_on_warning
  /\ StatusRestored.tr.m_errors_that_stop = m_errors_that_stop
  /\ StatusRestored.tr.m_caught_that_stop = m_caught_that_stop
  /\ StatusRestored.tr.m_warnings_that_stop = m_warnings_that_stop
  /\ StatusRestored.tr.Vdebug_on_interrupt = Vdebug_on_interrupt

\* The status was just taken as a struct in a state with an unqualified
\* trigger, a trigger with two identifiers, a trigger that is off and the
\* interrupt flag on; the clear changes that state and the struct restores it.
C27_Witness ==
  /\ call.op = "stop_on_err_warn_status"
  /\ ~ call.to_screen
  /\ debug_on_error /\ m_errors_that_stop = {}
  /\ debug_on_warning /\ m_warnings_that_stop = {S_Xy, S_Wz}
  /\ ~ debug_on_caught
  /\ Vdebug_on_interrupt
  /\ call.retval.warn = <<CellOf(<<Str(S_Wz), Str(S_Xy)>>)>>
  /\ call.retval.intr = <<UndefinedValue>>
  /\ all_signals_cleared(TrigRec).m_warnings_that_stop = {}
  /\ StatusRestored.tr.m_warnings_that_stop = {S_Xy, S_Wz}
  /\ StatusRestored.tr.Vdebug_on_interrupt

\* C26: parse_dbfunction_params terminates on every argument list: every pass
\* of the token loop consumes at least one token or raises an error, so the
\* loop ends, and a token the scan of line numbers leaves where it is cannot
\* be classified again and again.
C26_ParserTerminates ==
  /\ [](call.op = "parse_dbfunction_params" =>
          <>(call.op = "parse_dbfunction_params" /\ call.ps.done))
  /\ [][call.op = "parse_dbfunction_params" =>
          (call'.ps.pos > call.ps.pos \/ call'.ps.err # "")]_vars

\* "at -5" in the debugger: the scan of line numbers leaves -5, the next pass
\* takes it for a function name and raises the error.
C26_Witness ==
  /\ call.op = "parse_dbfunction_params"
  /\ call.ps.done
  /\ call.ps.args = <<Str(S_at), Str(S_m5)>>
  /\ call.ps.in_debug_repl
  /\ call.ps.passes = 2
  /\ call.ps.pos = 1
  /\ call.ps.lines = << >>
  /\ call.ps.err = "Too many function names specified"

\* C25: a trigger whose flag is off has an empty identifier set, for the error,
\* the caught-error and the warning trigger, in every state the event
\* commands, the struct form and the clear of all signals can reach.
C25_OffMeansNoIds ==
  /\ ~ debug_on_error => m_errors_that_stop = {}
  /\ ~ debug_on_caught => m_caught_that_stop = {}
  /\ ~ debug_on_warning => m_warnings_that_stop = {}

\* The last identifier of the error trigger is erased and the flag goes off
\* while the warning trigger keeps its identifiers and its flag.
C25_Witness ==
  /\ EventCommandDone
  /\ call.ps.who = "dbclear"
  /\ call.ps.args = <<Str(S_if), Str(S_error), Str(S_Xy)>>
  /\ call.pre.debug_on_error
  /\ call.pre.m_errors_that_stop = {S_Xy}
  /\ ~ debug_on_error
  /\ m_errors_that_stop = {}
  /\ debug_on_warning
  /\ m_warnings_that_stop # {}

(***************************************************************************)
(* Properties of the breakpoint table.                                     *)
(***************************************************************************)
Table == [bkpts |-> bkpts, m_bp_set |-> m_bp_set]

RECURSIVE RoutinesUnder(_)
\* A routine with its subfunctions and nested functions at every depth.
RoutinesUnder(r) == {r} \cup UNION {RoutinesUnder(s) : s \in subfunctions(r)}

\* The routines of the file a name belongs to.
RoutinesOfFile(fname) == RoutinesUnder(get_user_code(Normalize(fname)))

FileHoldsBreakpoint(f) == \E r \in RoutinesOfFile(f) : bkpts[r] # {}

\* The key under which get_breakpoint_list reports the routine r of the file of fname.
KeyOf(fname, r) ==
  IF r = get_user_code(Normalize(fname)) THEN Normalize(fname)
  ELSE Append(Normalize(fname), r)

\* C1: a name is in m_bp_set if and only if the file of that name (its
\* top-level routine or one of its subroutines) holds at least one breakpoint.
C1_NameSetIffBreakpoints ==
  \A f \in FileNames : f \in m_bp_set <=> FileHoldsBreakpoint(f)

\* C2: after add_breakpoint, get_breakpoint_list reports every inserted line
\* (the actual line returned for a requested line) under the key of the
\* routine that owns the requested line, at every nesting depth.
C2_AddThenListReports ==
  (call.op = "add_breakpoint" /\ call.err = "") =>
    \A p \in call.retval :
      p[2] # 0 =>
        LET owner == find_fcn_by_line(get_user_code(call.fname),
                                      call.line[p[1]], << >>).fcn
        IN \E e \in get_breakpoint_list(<< >>, Table) :
             e[1] = KeyOf(call.fname, owner) /\ p[2] \in e[2]

\* C3: after remove_all_breakpoints_in_file(f) on a name that resolves,
\* get_breakpoint_list(f) has no entry for f or for any f>sub, and f is not
\* in m_bp_set.
C3_RemoveFileThenListEmpty ==
  (call.op = "remove_all_breakpoints_in_file" /\ get_user_code(call.fname) # NULL) =>
    /\ call.fname \notin m_bp_set
    /\ \A e \in get_breakpoint_list(<<call.fname>>, Table) :
         SubSeq(e[1], 1, Len(call.fname)) # call.fname

C3_Witness ==
  /\ call.op = "remove_all_breakpoints_in_file"
  /\ call.fname = <<"fa">>
  /\ call.retval # {}
  /\ m_bp_set = {<<"sc">>}

\* C4: after remove_breakpoint with an empty line list, or after
\* remove_all_breakpoints_in_file, on a name that resolves, no routine of the
\* named file holds a breakpoint.
C4_RemoveFileClearsSubroutines ==
  (/\ \/ call.op = "remove_all_breakpoints_in_file"
      \/ call.op = "remove_breakpoint" /\ call.line = << >>
   /\ call.fname \in FileNames) =>
    \A r \in RoutinesOfFile(call.fname) : bkpts[r] = {}

\* C5: remove_all_breakpoints ends without error after one pass per name of
\* the set it started from, and leaves m_bp_set empty.
C5_RemoveAllEmptiesNameSet ==
  call.op = "remove_all_breakpoints" =>
    /\ call.err = ""
    /\ call.n = Cardinality(call.retval)
    /\ m_bp_set = {}

C5_Witness ==
  /\ call.op = "remove_all_breakpoints"
  /\ call.retval = {<<"fa">>, <<"sc">>}
  /\ m_bp_set = {}

\* C16: condition_valid succeeds on the empty text without running the
\* parser; on any other text it runs the parser and succeeds exactly when the
\* parser succeeds with one statement that is an expression and no plain
\* assignment.  y+=10 and y++ are accepted; y=5 is rejected with the message
\* that suggests ==.
C16_ConditionValidator ==
  (call.op = "add_breakpoint" /\ call.err # "NotFound") =>
    IF call.cond = ""
    THEN call.err = "" /\ ~ call.parsed
    ELSE LET p == parser_run(call.cond)
         IN /\ call.parsed
            /\ call.err = "" <=>
                 /\ p.parse_status = 0
                 /\ p.stmt_list # << >>
                 /\ Len(p.stmt_list[1]) = 1
                 /\ p.stmt_list[1][1].is_expression
                 /\ ~ p.stmt_list[1][1].is_assignment_expression
            /\ call.cond \in {"y+=10", "y++"} => call.err = ""
            /\ call.cond = "y=5" =>
                 call.err = "condition cannot be an assignment.  Did you mean '=='?"

C16_Witness ==
  /\ call.op = "add_breakpoint"
  /\ call.cond = "y+=10"
  /\ call.parsed
  /\ call.err = ""
  /\ call.retval # {}

\* C17: an add_breakpoint that fails, because the name does not resolve or
\* because the condition is rejected, leaves every routine's breakpoints and
\* m_bp_set as they were.
C17_FailedAddLeavesTable ==
  [][(call'.op = "add_breakpoint" /\ call'.err # "") =>
       (bkpts' = bkpts /\ m_bp_set' = m_bp_set)]_vars

C17_Witness ==
  /\ call.op = "add_breakpoint"
  /\ call.fname = <<"fa">>
  /\ call.line = <<3, 7>>
  /\ call.cond = "y=5"
  /\ call.err # ""
  /\ m_bp_set = {<<"sc">>}
  /\ bkpts["zb"] = {} /\ bkpts["ya"] = {}

RECURSIVE RemovedIn(_, _, _)
\* The number of breakpoints of before that are not in after, over the routines rs.
RemovedIn(rs, before, after) ==
  IF rs = {} THEN 0
  ELSE LET r == CHOOSE x \in rs : TRUE
       IN Cardinality(before[r] \ after[r]) + RemovedIn(rs \ {r}, before, after)

\* C15: remove_breakpoint with a non-empty line list returns the number of
\* breakpoints it removed, summed over the top-level routine and its
\* subroutines.
C15_RemoveReturnsCountRemoved ==
  [][(/\ call'.op = "remove_breakpoint"
      /\ call'.line # << >>
      /\ call'.err = "") =>
       call'.n = RemovedIn(Routines, bkpts, bkpts')]_vars

\* The routine find_fcn_by_line returns for the line l of the file of fname.
OwnerOf(fname, l) == find_fcn_by_line(get_user_code(fname), l, << >>).fcn

\* C21: in one add_breakpoint call each requested line is inserted only in
\* the routine find_fcn_by_line returns for it: every breakpoint the call
\* creates in a routine comes from a requested line that the routine owns.
C21_LinesOnlyInOwner ==
  [][(call'.op = "add_breakpoint" /\ call'.err = "" /\ call'.fname \in FileNames) =>
       \A r \in Routines :
         (bkpts'[r] \ bkpts[r]) \subseteq
           {set_breakpoint(r, call'.line[i]) :
              i \in {j \in 1 .. Len(call'.line) :
                       OwnerOf(call'.fname, call'.line[j]) = r}}]_vars

\* The requested line at index i of the call is resolved and inserted.
LineInserted(fname, line, i) ==
  /\ OwnerOf(fname, line[i]) # NULL
  /\ set_breakpoint(OwnerOf(fname, line[i]), line[i]) # 0

\* C22: when a requested line of an add_breakpoint call cannot be resolved or
\* inserted, the breakpoints of the earlier lines of the call are in place,
\* the name of the file is in m_bp_set, and the returned map has the entries
\* of the earlier lines.
C22_NoRollback ==
  (call.op = "add_breakpoint" /\ call.err = "") =>
    \A i, j \in 1 .. Len(call.line) :
      (/\ i < j
       /\ LineInserted(call.fname, call.line, i)
       /\ ~ LineInserted(call.fname, call.line, j)) =>
        LET owner == OwnerOf(call.fname, call.line[i])
            actual == set_breakpoint(owner, call.line[i])
        IN /\ actual \in bkpts[owner]
           /\ Normalize(call.fname) \in m_bp_set
           /\ <<i, actual>> \in call.retval

C22_Witness ==
  /\ call.op = "add_breakpoint"
  /\ call.err = ""
  /\ call.fname = <<"fa">>
  /\ call.line = <<6, 8>>
  /\ OwnerOf(<<"fa">>, 8) = NULL
  /\ call.retval = {<<1, 6>>}
  /\ 6 \in bkpts["zb"]
  /\ <<"fa">> \in m_bp_set

\* C23: after remove_breakpoint on a file name with a non-empty line list,
\* no listed line holds a breakpoint in any routine of the file, and every
\* breakpoint at a line that is not listed, in this file and in every other
\* file, is as it was.
C23_RemoveListedLinesOnly ==
  [][(/\ call'.op = "remove_breakpoint"
      /\ call'.line # << >>
      /\ call'.err = ""
      /\ call'.fname \in FileNames) =>
       LET listed == {call'.line[i] : i \in 1 .. Len(call'.line)}
       IN /\ \A r \in RoutinesOfFile(call'.fname) : bkpts'[r] \cap listed = {}
          /\ \A r \in Routines : bkpts'[r] \ listed = bkpts[r] \ listed]_vars

\* C24: clearing every breakpoint leaves the three event flags, the three
\* identifier sets and the stop-on-interrupt setting as they were.
C24_RemoveAllKeepsTriggers ==
  [][call'.op = "remove_all_breakpoints" =>
       /\ debug_on_error' = debug_on_error
       /\ debug_on_caught' = debug_on_caught
       /\ debug_on_warning' = debug_on_warning
       /\ m_errors_that_stop' = m_errors_that_stop
       /\ m_caught_that_stop' = m_caught_that_stop
       /\ m_warnings_that_stop' = m_warnings_that_stop
       /\ Vdebug_on_interrupt' = Vdebug_on_interrupt]_vars

C24_Witness ==
  /\ call.op = "remove_all_breakpoints"
  /\ call.retval = {<<"fa">>, <<"sc">>}
  /\ m_bp_set = {}
  /\ debug_on_error
  /\ m_errors_that_stop = {S_Xy}
  /\ Vdebug_on_interrupt

(***************************************************************************)
(* Properties of the line resolver.                                        *)
(***************************************************************************)
\* The call just completed resolves a line of a function file.
ResolvedInFunctionFile ==
  /\ call.op = "find_fcn_by_line"
  /\ call.main_fcn \in TopLevel
  /\ is_user_function(call.main_fcn)

\* The routines of the file of main_fcn whose range holds the line.
Containing(main_fcn, lineno) ==
  {r \in RoutinesUnder(main_fcn) :
     beginning_line(r) <= lineno /\ lineno <= ending_line(r)}

\* C18: when the range of at least one routine of a function file holds the
\* requested line, find_fcn_by_line returns the routine with the smallest
\* end line among the routines, at every nesting depth, whose range holds it.
C18_InnermostContaining ==
  (ResolvedInFunctionFile /\ Containing(call.main_fcn, call.lineno) # {}) =>
    /\ call.fcn \in Containing(call.main_fcn, call.lineno)
    /\ \A r \in Containing(call.main_fcn, call.lineno) :
         ending_line(call.fcn) <= ending_line(r)

C18_Witness ==
  /\ call.op = "find_fcn_by_line"
  /\ call.main_fcn = "ma"
  /\ call.lineno = 7
  /\ Containing("ma", 7) = {"ma", "nb", "nc", "na"}
  /\ call.fcn = "na"

\* The subroutines of the file of main_fcn that begin at or after the line.
BeginningAfter(main_fcn, lineno) ==
  {r \in RoutinesUnder(main_fcn) \ {main_fcn} : beginning_line(r) >= lineno}

\* C19: when no routine of a function file holds the requested line,
\* find_fcn_by_line returns the first subroutine, in the order of the file,
\* that begins at or after the line.
C19_GapResolvesToNextInFile ==
  (/\ ResolvedInFunctionFile
   /\ Containing(call.main_fcn, call.lineno) = {}
   /\ BeginningAfter(call.main_fcn, call.lineno) # {}) =>
    /\ call.fcn \in BeginningAfter(call.main_fcn, call.lineno)
    /\ \A r \in BeginningAfter(call.main_fcn, call.lineno) :
         beginning_line(call.fcn) <= beginning_line(r)

\* C20 as claimed: for a script and for a function file whose routines have
\* bodies, find_fcn_by_line returns a routine for every requested line.
C20_EveryLineResolves ==
  (call.op = "find_fcn_by_line" /\ call.main_fcn \in TopLevel) => call.fcn # NULL

\* C20 as amended: find_fcn_by_line returns no routine exactly when the file
\* is a function file and the requested line is after the last line of every
\* routine of the file; a script resolves every line to itself.
C20_NotFoundPastTheEnd ==
  (call.op = "find_fcn_by_line" /\ call.main_fcn \in TopLevel) =>
    /\ call.fcn = NULL <=>
         /\ is_user_function(call.main_fcn)
         /\ \A r \in RoutinesUnder(call.main_fcn) : ending_line(r) < call.lineno
    /\ ~ is_user_function(call.main_fcn) => call.fcn = call.main_fcn

C20_Witness ==
  /\ call.op = "find_fcn_by_line"
  /\ call.main_fcn = "fa"
  /\ call.lineno = 8
  /\ call.fcn = NULL

(***************************************************************************)
(* Properties of the argument parser.                                      *)
(***************************************************************************)
IsKeyword(v, kw) == is_string(v) /\ v.chars = kw

AnyKeyword(v) == IsKeyword(v, S_in) \/ IsKeyword(v, S_at) \/ IsKeyword(v, S_if)

\* A bare name stands for an `in` clause, a bare positive number for `at`.
BareName(v) == is_string(v) /\ ~ AnyKeyword(v) /\ atoi(v.chars) <= 0
BareNumber(v) == is_string(v) /\ ~ AnyKeyword(v) /\ atoi(v.chars) > 0

\* The place of the first `if`, or Len(args) + 1.
FirstIf(args) ==
  IF \E i \in 1 .. Len(args) : IsKeyword(args[i], S_if)
  THEN SetMin({i \in 1 .. Len(args) : IsKeyword(args[i], S_if)})
  ELSE Len(args) + 1

\* For `if event [id]` at the head of args: the place of the last argument
\* that belongs to the clause; Len(args) when the event is none of the grammar.
EventClauseEnd(args) ==
  IF Len(args) < 2 THEN Len(args)
  ELSE IF args[2] \in {Str(S_interrupt), Str(S_naninf)} THEN 2
  ELSE IF args[2] \in {Str(S_error), Str(S_warning)}
  THEN IF Len(args) >= 3 THEN 3 ELSE 2
  ELSE IF args[2] = Str(S_caught) /\ Len(args) >= 3 /\ args[3] = Str(S_error)
  THEN IF Len(args) >= 4 THEN 4 ELSE 3
  ELSE Len(args)

\* An `in` or `at` clause begins after the `if event [id]` clause.
ClauseAfterIf(args) ==
  /\ FirstIf(args) = 1
  /\ \E j \in EventClauseEnd(args) + 1 .. Len(args) :
       \/ IsKeyword(args[j], S_in) \/ BareName(args[j])
       \/ IsKeyword(args[j], S_at) \/ BareNumber(args[j])

\* An `in` clause begins after an `at` clause, before any `if`.  The argument
\* of an `in` keyword starts no clause, and what follows an `at` keyword is
\* the argument of that `at` (a line or a method name).
InAfterAt(args) ==
  \E i, j \in 1 .. FirstIf(args) - 1 :
    /\ i < j
    /\ IsKeyword(args[i], S_at) \/ BareNumber(args[i])
    /\ i > 1 => ~ IsKeyword(args[i - 1], S_in)
    /\ ~ IsKeyword(args[j - 1], S_at)
    /\ \/ IsKeyword(args[j], S_in)
       \/ BareName(args[j]) /\ ~ IsKeyword(args[j - 1], S_in)

\* C10: the parse of an argument list in which an `in` clause comes after an
\* `at` or `if` clause, or an `at` clause after an `if` clause, ends with an error.
C10_ClauseOrderRejected ==
  (/\ call.op = "parse_dbfunction_params"
   /\ call.ps.done
   /\ InAfterAt(call.ps.args) \/ ClauseAfterIf(call.ps.args)) =>
    call.ps.err # ""

\* An `at` clause that opens the argument list: the keyword with an argument
\* after it, or a bare positive number.
AtFirst(args) ==
  /\ Len(args) >= 1
  /\ \/ IsKeyword(args[1], S_at) /\ Len(args) >= 2
     \/ BareNumber(args[1])

RECURSIVE ListedLines(_, _)
\* The lines listed from place k on: positive numbers and numeric arrays, up
\* to the first argument that is neither.
ListedLines(args, k) ==
  IF k > Len(args) THEN << >>
  ELSE IF is_string(args[k]) /\ atoi(args[k].chars) > 0
  THEN <<atoi(args[k].chars)>> \o ListedLines(args, k + 1)
  ELSE IF isnumeric(args[k]) THEN args[k].elems \o ListedLines(args, k + 1)
  ELSE << >>

\* C11: when an `at` clause comes with no `in` clause before it, the pass that
\* reads it takes the function name from the routine the debugger is stopped
\* in and reads the line list if a debug session is stopped in a routine;
\* otherwise the parse ends with an error, with no function name and no lines.
C11_AtWithoutIn ==
  (call.op = "parse_dbfunction_params" /\ AtFirst(call.ps.args)) =>
    IF call.ps.in_debug_repl
    THEN call.ps.passes = 1 =>
           /\ call.ps.err = ""
           /\ call.ps.func_name = DebuggedFcn
           /\ call.ps.lines =
                ListedLines(call.ps.args,
                            IF IsKeyword(call.ps.args[1], S_at) THEN 2 ELSE 1)
    ELSE call.ps.passes >= 1 =>
           /\ call.ps.done
           /\ call.ps.err # ""
           /\ call.ps.func_name = << >>
           /\ call.ps.lines = << >>

C11_Witness ==
  /\ call.op = "parse_dbfunction_params"
  /\ call.ps.in_debug_repl
  /\ call.ps.args = <<Str(S_at), Str(S_5), Num(<<7>>)>>
  /\ call.ps.passes = 1
  /\ call.ps.func_name = DebuggedFcn
  /\ call.ps.lines = <<5, 7>>

====
